---- MODULE Spec2Model ----
(***************************************************************************)
(* Detection store of db_service: the detections table, the three HTTP     *)
(* handlers of main.py (create_detection, get_detections,                  *)
(* update_gemini_analysis) and the schema reset run when main.py is        *)
(* imported.                                                               *)
(*                                                                         *)
(* Every handler is an `async def` without an await in its body, so the    *)
(* event loop runs each handler body to completion before it starts the    *)
(* next one: one action per handler.  Concurrent requests are therefore    *)
(* handled in an arbitrary order, one whole handler after the other.       *)
(* Store failures are injected where create_detection catches them.        *)
(*                                                                         *)
(* Numbers: JSON numbers are modelled as integers (confidence in           *)
(* hundredths).  An Optional value is a sequence of length at most one:    *)
(* Null is None, Some(v) is the value v.                                   *)
(***************************************************************************)
EXTENDS Integers, Sequences, FiniteSets, TLC

VARIABLES
    table,      \* rows of the detections table (a set of Detection rows)
    nextId,     \* next value of the autoincrement primary key
    clock,      \* datetime.utcnow(), in ticks
    resp,       \* the event loop: just started ("init"), idle, or the request
                \* just handled with the HTTP response being sent
    history,    \* history: per record created since the last schema reset, in
                \* creation order: its id, the wire input, the row as inserted
                \* and the analysis of the last committed update
    assigned,   \* history: every id ever assigned by a create, over all resets
    overwritten \* history: the analysis replaced by the update being answered

vars == <<table, nextId, clock, resp, history, assigned, overwritten>>

----------------------------------------------------------------------------
\* Bounds of the model
MaxRows == 2        \* rows per schema epoch
MaxClock == 1       \* last tick of the clock

Null == <<>>
Some(v) == <<v>>
IsNull(o) == o = <<>>
Get(o) == o[1]

Min(a, b) == IF a <= b THEN a ELSE b
Max(a, b) == IF a >= b THEN a ELSE b

----------------------------------------------------------------------------
\* Request inputs (wire JSON)

BoxA == [x |-> 10, y |-> 20, width |-> 30, height |-> 40]
BoxScene == [x |-> 0, y |-> 0, width |-> 640, height |-> 480]
Wheel == [class |-> "wheel", bbox |-> <<1, 2, 3, 4>>]
Door == [class |-> "door", bbox |-> <<5, 6, 7, 8>>]

\* POST bodies: a car with one object, a scene with two objects, a record
\* with objects absent and a record with objects empty.
Inputs ==
    { [object_class |-> "car", confidence |-> 92, bbox |-> BoxA,
       objects |-> Some(<<Wheel>>), gemini_analysis |-> "a red car"],
      [object_class |-> "scene", confidence |-> 50, bbox |-> BoxScene,
       objects |-> Some(<<Door, Wheel>>), gemini_analysis |-> "a street"],
      [object_class |-> "person", confidence |-> 75, bbox |-> BoxA,
       objects |-> Null, gemini_analysis |-> "a person"],
      [object_class |-> "dog", confidence |-> 60, bbox |-> BoxScene,
       objects |-> Some(<<>>), gemini_analysis |-> "a dog"] }

\* analysis strings of PUT requests
Analyses == {"new text", "other text"}

\* ids of PUT requests, one more than can exist
Ids == 1..(MaxRows + 1)

\* skip and limit of GET requests
Pages == 0..MaxRows

\* where the persistence step of create may raise
FailPoints == {"none", "add", "commit", "refresh"}

----------------------------------------------------------------------------
\* pydantic models (main.py)

\* ObjectInfo(**obj): the field class_name is populated from the key `class`
ObjectInfoValid(obj) == {"class", "bbox"} \subseteq DOMAIN obj
ObjectInfo(obj) == [class_name |-> obj.class, bbox |-> obj.bbox]

\* BoundingBox(**d)
BoundingBox(d) == [x |-> d.x, y |-> d.y, width |-> d.width, height |-> d.height]

\* mutant: obj.dict() without by_alias, the key is the field name
DictByName(o) == [class_name |-> o.class_name, bbox |-> o.bbox]

\* obj.dict(by_alias=True): the key is the alias `class`
DictByAlias(o) == [class |-> o.class_name, bbox |-> o.bbox]

\* bbox.dict()
BBoxDict(b) == [x |-> b.x, y |-> b.y, width |-> b.width, height |-> b.height]

\* [ObjectInfo(**obj) for obj in objs]
ObjectInfos(objs) == [i \in 1..Len(objs) |-> ObjectInfo(objs[i])]

\* [obj.dict(by_alias=True) for obj in objs]
DictsByAlias(objs) == [i \in 1..Len(objs) |-> DictByAlias(objs[i])]

\* the request body parsed into a DetectionCreate
DetectionCreate(w) ==
    [object_class |-> w.object_class,
     confidence |-> w.confidence,
     bbox |-> BoundingBox(w.bbox),
     objects |-> IF IsNull(w.objects) THEN Null
                 ELSE Some(ObjectInfos(Get(w.objects))),
     gemini_analysis |-> w.gemini_analysis]

\* a DetectionCreate serialized by response_model (by alias)
Serialize(m) ==
    [object_class |-> m.object_class,
     confidence |-> m.confidence,
     bbox |-> BBoxDict(m.bbox),
     objects |-> IF IsNull(m.objects) THEN Null
                 ELSE Some(DictsByAlias(Get(m.objects))),
     gemini_analysis |-> m.gemini_analysis]

\* Python truth value of an Optional[List]: None and [] are false
Truthy(o) == ~IsNull(o) /\ Get(o) # <<>>

----------------------------------------------------------------------------
\* Detection rows (models.py) and the statements the handlers issue

\* mutant: the primary key is not taken from the sequence
NewDetectionFixedId(detection, id, ts) ==
    [id |-> 1,
     timestamp |-> ts,
     object_class |-> detection.object_class,
     confidence |-> detection.confidence,
     bbox |-> detection.bbox,
     objects |-> IF ~IsNull(detection.objects) /\ Get(detection.objects) # <<>>
                 THEN Some([i \in 1..Len(Get(detection.objects)) |->
                              DictByAlias(Get(detection.objects)[i])])
                 ELSE Null,
     gemini_analysis |-> detection.gemini_analysis]

\* Detection(...) as flushed by the INSERT: id from the primary key sequence,
\* timestamp from default=datetime.utcnow
NewDetection(detection, id, ts) ==
    [id |-> id,
     timestamp |-> ts,
     object_class |-> detection.object_class,
     confidence |-> detection.confidence,
     bbox |-> BBoxDict(detection.bbox),
     objects |-> IF Truthy(detection.objects)
                 THEN Some(DictsByAlias(Get(detection.objects)))
                 ELSE Null,
     gemini_analysis |-> detection.gemini_analysis]

\* mutant: the insert replaces the stored rows
InsertReplace(t, row) == {row}

\* db.add(db_detection); db.commit()
Insert(t, row) == t \cup {row}

RECURSIVE SortById(_)
SortById(S) ==
    IF S = {} THEN <<>>
    ELSE LET m == CHOOSE r \in S : \A q \in S : r.id <= q.id
         IN <<m>> \o SortById(S \ {m})

\* the order in which a SELECT without ORDER BY yields the rows: primary-key order
TableScan(t) == SortById(t)

\* .offset(skip)
Offset(s, k) == [i \in 1..Max(0, Len(s) - k) |-> s[i + k]]

\* mutant: the limit is inclusive, one row too many
LimitInclusive(s, m) == [i \in 1..Min(m + 1, Len(s)) |-> s[i]]

\* .limit(limit)
Limit(s, m) == [i \in 1..Min(m, Len(s)) |-> s[i]]

\* db.query(Detection).offset(skip).limit(limit).all()
Query(t, skip, limit) == Limit(Offset(TableScan(t), skip), limit)

\* whether DetectionCreate(...) can be built from the row d
RowValid(d) ==
    Truthy(d.objects) =>
        \A i \in 1..Len(Get(d.objects)) : ObjectInfoValid(Get(d.objects)[i])

\* DetectionCreate(object_class=d.object_class, ...) built from the row d
RowToModel(d) ==
    [object_class |-> d.object_class,
     confidence |-> d.confidence,
     bbox |-> BoundingBox(d.bbox),
     objects |-> IF Truthy(d.objects)
                 THEN Some(ObjectInfos(Get(d.objects)))
                 ELSE Null,
     gemini_analysis |-> d.gemini_analysis]

RowToWire(d) == Serialize(RowToModel(d))

\* mutant: the filter on the id is missing, first() yields any row
FindAny(t, id) == IF t = {} THEN Null ELSE Some(CHOOSE r \in t : TRUE)

\* db.query(Detection).filter(Detection.id == detection_id).first()
FindById(t, id) ==
    LET m == {r \in t : r.id = id}
    IN IF m = {} THEN Null ELSE Some(CHOOSE r \in m : TRUE)

\* mutant: the assignment also clears the objects column
SetAnalysisClearObjects(d, analysis) ==
    [d EXCEPT !.gemini_analysis = analysis, !.objects = Null]

\* detection.gemini_analysis = analysis
SetAnalysis(d, analysis) == [d EXCEPT !.gemini_analysis = analysis]

\* mutant: the assignment is applied to every row
UpdateAllRows(t, d, analysis) ==
    {[r EXCEPT !.gemini_analysis = analysis] : r \in t}

\* mutant: the commit is missing, the assignment is lost with the session
UpdateRowNoCommit(t, d, analysis) == t

\* detection.gemini_analysis = analysis; db.commit()
UpdateRow(t, d, analysis) == (t \ {d}) \cup {SetAnalysis(d, analysis)}

\* Base.metadata.drop_all(bind=engine); Base.metadata.create_all(bind=engine)
EmptyTable == {}

----------------------------------------------------------------------------
\* Responses

Response(op, status, req, body, detail) ==
    [op |-> op, status |-> status, req |-> req, body |-> body, detail |-> detail]

Started == Response("init", 0, Null, Null, "")
Idle == Response("idle", 0, Null, Null, "")

\* the event loop is free to run a handler
Ready == resp \in {Started, Idle}

\* str(e) of the exception raised at a fail point
Message(fail) ==
    CASE fail = "add" -> "add failed"
      [] fail = "commit" -> "commit failed"
      [] fail = "refresh" -> "refresh failed"

----------------------------------------------------------------------------
\* State machine

Init ==
    /\ table = EmptyTable
    /\ nextId = 1
    /\ clock = 0
    /\ resp = Started
    /\ history = <<>>
    /\ assigned = {}
    /\ overwritten = Null

\* module import: the schema is dropped and created again (process start)
SchemaReset ==
    /\ table' = EmptyTable
    /\ nextId' = 1
    /\ history' = <<>>
    /\ resp' = Started
    /\ overwritten' = Null
    /\ UNCHANGED <<clock, assigned>>

\* POST /detections/ with body w; the persistence step raises at `fail`;
\* utcnow() reads ts
CreateDetection(w, fail, ts) ==
    LET detection == DetectionCreate(w)
        db_detection == NewDetection(detection, nextId, ts)
        committed == fail \in {"none", "refresh"}
    IN /\ Ready
       /\ Cardinality(table) < MaxRows
       /\ clock' = ts
       /\ overwritten' = Null
       /\ IF committed
          THEN /\ table' = Insert(table, db_detection)
               /\ nextId' = nextId + 1
               /\ history' = Append(history,
                                [id |-> db_detection.id, input |-> w,
                                 row |-> db_detection, last |-> Null])
               /\ assigned' = assigned \cup {db_detection.id}
          ELSE UNCHANGED <<table, nextId, history, assigned>>
       /\ resp' = IF fail = "none"
                  THEN Response("create", 200, w, Some(Serialize(detection)), "")
                  ELSE Response("create", 500, w, Null, Message(fail))

\* GET /detections/?skip=&limit=
GetDetections(skip, limit) ==
    LET detections == Query(table, skip, limit)
        req == [skip |-> skip, limit |-> limit]
    IN /\ Ready
       /\ resp' = IF \A i \in 1..Len(detections) : RowValid(detections[i])
                  THEN Response("list", 200, req,
                                Some([i \in 1..Len(detections) |-> RowToWire(detections[i])]), "")
                  ELSE Response("list", 500, req, Null, "validation error")
       /\ UNCHANGED <<table, nextId, clock, history, assigned, overwritten>>

\* PUT /detections/{detection_id}/analysis?analysis=
UpdateGeminiAnalysis(detection_id, analysis) ==
    LET detection == FindById(table, detection_id)
        req == [id |-> detection_id, analysis |-> analysis]
    IN /\ Ready
       /\ IF IsNull(detection)
          THEN /\ resp' = Response("update", 404, req, Null, "Detection not found")
               /\ UNCHANGED <<table, nextId, clock, history, assigned, overwritten>>
          ELSE /\ table' = UpdateRow(table, Get(detection), analysis)
               /\ history' = [i \in DOMAIN history |->
                               IF history[i].id = detection_id
                               THEN [history[i] EXCEPT !.last = Some(analysis)]
                               ELSE history[i]]
               /\ overwritten' = Some(Get(detection).gemini_analysis)
               /\ resp' = Response("update", 200, req,
                                   Some([status |-> "success"]), "")
               /\ UNCHANGED <<nextId, clock, assigned>>

\* the response is sent; the event loop takes the next request
SendResponse ==
    /\ ~Ready
    /\ resp' = Idle
    /\ overwritten' = Null
    /\ UNCHANGED <<table, nextId, clock, history, assigned>>

Create == \E w \in Inputs, fail \in FailPoints, ts \in clock..MaxClock :
              CreateDetection(w, fail, ts)

List == \E skip \in Pages, limit \in Pages : GetDetections(skip, limit)

Update == \E id \in Ids, analysis \in Analyses : UpdateGeminiAnalysis(id, analysis)

Next == Create \/ List \/ Update \/ SendResponse \/ SchemaReset

Spec == Init /\ [][Next]_vars

----------------------------------------------------------------------------
\* Properties

TableIds(t) == {r.id : r \in t}
Row(id) == CHOOSE r \in table : r.id = id
Listed == resp.op = "list" /\ resp.status = 200
Body == Get(resp.body)

\* the record a listed entry stands for: entry i of list(skip, limit) is the
\* (skip + i)-th record created since the last schema reset
Entry(i) == history[resp.req.skip + i]

\* the analysis a record holds: the last committed update's, else the created one
Current(h) == IF IsNull(h.last) THEN h.row.gemini_analysis ELSE Get(h.last)

\* C1: a record created with objects null is listed with objects null, and a
\* record created with objects = [] is listed with objects = []
ObjectsAbsentAndEmptyKeptApart ==
    Listed =>
        \A i \in 1..Len(Body) :
            ~Truthy(Entry(i).input.objects) =>
                Body[i].objects = Entry(i).input.objects

\* C2: a record created from an input with a non-empty objects sequence, and
\* not updated since, is listed (skip = 0, limit >= 1 returns it when it is
\* the first) with every field equal to the input, whatever its object_class
RoundTrip ==
    /\ (resp.op = "list" /\ resp.req.skip = 0 /\ resp.req.limit >= 1
            /\ Len(history) >= 1)
         => (resp.status = 200 /\ Len(Body) >= 1)
    /\ Listed =>
         \A i \in 1..Len(Body) :
            (Truthy(Entry(i).input.objects) /\ IsNull(Entry(i).last)) =>
                Body[i] = Entry(i).input

RoundTripWitness ==
    /\ Listed
    /\ resp.req.skip = 0
    /\ Len(history) = 1
    /\ Len(Body) = 1
    /\ Body[1].object_class = "scene"
    /\ Len(Get(Body[1].objects)) = 2
    /\ Get(Body[1].objects)[1].class = "door"
    /\ Body[1] = history[1].input

SameFixedFields(r, q) ==
    /\ r.id = q.id
    /\ r.timestamp = q.timestamp
    /\ r.object_class = q.object_class
    /\ r.confidence = q.confidence
    /\ r.bbox = q.bbox
    /\ r.objects = q.objects

\* C4: a successful updateAnnotation(id, analysis) sets the gemini_analysis of
\* record id to analysis, changes no other field of it, changes no other
\* record and leaves the number of records as it was
UpdateChangesOnlyAnalysis ==
    [][(resp'.op = "update" /\ resp'.status = 200) =>
          /\ Cardinality(table') = Cardinality(table)
          /\ resp'.req.id \in TableIds(table)
          /\ \A r \in table :
                \E q \in table' :
                    /\ SameFixedFields(r, q)
                    /\ q.gemini_analysis = IF r.id = resp'.req.id
                                           THEN resp'.req.analysis
                                           ELSE r.gemini_analysis]_vars

UpdateChangesOnlyAnalysisWitness ==
    /\ resp.op = "update"
    /\ resp.status = 200
    /\ Cardinality(table) = 2
    /\ Truthy(Row(resp.req.id).objects)
    /\ Row(resp.req.id).gemini_analysis = resp.req.analysis
    /\ \E r \in table : r.id # resp.req.id /\ r.gemini_analysis # resp.req.analysis

\* C5: updateAnnotation with an id of no stored record answers 404 "Detection
\* not found", not the acknowledgment, and changes and creates no record
UpdateUnknownIdNotFound ==
    [][(resp'.op = "update" /\ resp'.req.id \notin TableIds(table)) =>
          /\ resp'.status = 404
          /\ resp'.detail = "Detection not found"
          /\ IsNull(resp'.body)
          /\ table' = table]_vars

UpdateUnknownIdNotFoundWitness ==
    /\ resp.op = "update"
    /\ resp.status = 404
    /\ table # {}
    /\ resp.req.id \notin TableIds(table)

\* a step creates the records of t2 whose id t1 does not hold
Created(t1, t2) == {r \in t2 : r.id \notin TableIds(t1)}

\* C6: over create, list, updateAnnotation and schema resets, an id assigned
\* by a create is never assigned to another record later, and the ids of the
\* stored records are unique
IdsNeverReused ==
    [][/\ \A r \in Created(table, table') : r.id \notin assigned
       /\ \A r, q \in table' : r.id = q.id => r = q]_vars

\* C6 as amended: between two schema resets an id assigned by a create is not
\* assigned to another record, and the ids of the stored records are unique
IdsNeverReusedBetweenResets ==
    [][/\ \A r \in Created(table, table') :
             r.id \notin {history[i].id : i \in DOMAIN history}
       /\ \A r, q \in table' : r.id = q.id => r = q
       /\ Cardinality(TableIds(table')) = Len(history')]_vars

IdsNeverReusedBetweenResetsWitness ==
    /\ resp.op = "create"
    /\ resp.status = 200
    /\ Cardinality(table) = 2
    /\ Len(history) = 2
    /\ history[1].id # history[2].id
    /\ history[1].input = history[2].input

\* C7: a create whose persistence step raises (add, commit or refresh) answers
\* 500 with the message of the exception and stores no row
FailedCreateStoresNothing ==
    [][(resp'.op = "create" /\ resp'.status # 200) =>
          /\ resp'.status = 500
          /\ resp'.detail # ""
          /\ table' = table]_vars

\* C8: between two schema resets every record created is still stored with
\* the id, timestamp, object_class, confidence, bbox and objects it was
\* created with; after the schema reset at process start the store is empty
CreatedRecordsKeepFields ==
    /\ \A i \in DOMAIN history :
          \E r \in table : SameFixedFields(r, history[i].row)
    /\ resp = Started => table = {}

CreatedRecordsKeepFieldsWitness ==
    /\ Cardinality(table) = 2
    /\ \E i \in DOMAIN history :
          /\ ~IsNull(history[i].last)
          /\ Truthy(history[i].row.objects)
          /\ Row(history[i].id).gemini_analysis # history[i].row.gemini_analysis

\* C9: a successful create adds exactly one record, whose id no stored record
\* has, leaves the stored records as they were, and answers the input,
\* without id and timestamp
CreateAddsOneRecord ==
    [][(resp'.op = "create" /\ resp'.status = 200) =>
          /\ Cardinality(table') = Cardinality(table) + 1
          /\ table \subseteq table'
          /\ \A r \in table' \ table : r.id \notin TableIds(table)
          /\ Get(resp'.body) = resp'.req
          /\ DOMAIN Get(resp'.body) \cap {"id", "timestamp"} = {}]_vars

CreateAddsOneRecordWitness ==
    /\ resp.op = "create"
    /\ resp.status = 200
    /\ Cardinality(table) = 2
    /\ Truthy(resp.req.objects)
    /\ \E r \in table : r.object_class # resp.req.object_class

\* C10: with updates of one id and lists handled in any order, the record
\* holds the analysis of the update committed last, no update of a stored id
\* is rejected, and a list shows for each record its committed analysis (the
\* created one or the last update's) with the other fields as created
LastWriterWins ==
    /\ \A i \in DOMAIN history :
          ~IsNull(history[i].last) =>
              \E r \in table : /\ r.id = history[i].id
                               /\ r.gemini_analysis = Get(history[i].last)
    /\ (resp.op = "update" /\ resp.req.id \in TableIds(table)) =>
          (resp.status = 200 /\ Row(resp.req.id).gemini_analysis = resp.req.analysis)
    /\ resp.op = "list" =>
          /\ resp.status = 200
          /\ \A i \in 1..Len(Body) :
                /\ Body[i].gemini_analysis = Current(Entry(i))
                /\ Body[i] = RowToWire([Entry(i).row EXCEPT
                                 !.gemini_analysis = Body[i].gemini_analysis])

LastWriterWinsWitness ==
    /\ resp.op = "update"
    /\ resp.status = 200
    /\ ~IsNull(overwritten)
    /\ Get(overwritten) \in Analyses
    /\ Get(overwritten) # resp.req.analysis
    /\ Row(resp.req.id).gemini_analysis = resp.req.analysis

====
